---- MODULE Spec2Model ----
(***************************************************************************)
(* Model of lithops/localhost/local_handler.py: the "run" command of the   *)
(* localhost job handler.  The main control flow builds a                  *)
(* LocalhostExecutor (which starts num_workers workers on one shared FIFO  *)
(* queue), run() enqueues one payload per call and then one                *)
(* ShutdownSentinel per worker, wait() joins the workers and the main      *)
(* flow finally touches the "<executor>_<job>.done" file.                  *)
(*                                                                         *)
(* Each worker runs _process_runner: a loop that draws an activation id,   *)
(* publishes it in os.environ, blocks on queue.get, leaves on a            *)
(* ShutdownSentinel or a KeyboardInterrupt, and otherwise calls            *)
(* function_handler(event) and appends a block to the function log.        *)
(* function_handler is opaque: per call it either returns or raises.       *)
(***************************************************************************)
EXTENDS Integers, Sequences, FiniteSets, TLC

\* ------------------------------------------------------------------ bounds
MaxCalls == 2
MaxWorkers == 2
MaxOutputLen == 4

\* "{:05d}".format(i): the field width of a call id
CallIdWidth == 5

VARIABLES
    job,          \* the job file: its fields, and the fields it lacks
    num_workers,  \* config['lithops']['workers']
    use_threads,  \* not is_unix_system(): threads share one process
    raises,       \* call indices on which function_handler raises
    sigint,       \* whether KeyboardInterrupt is delivered in this run
    mainpc,       \* position of the "run" command's control flow
    workers,      \* self.workers: the worker ids started so far, in order
    run_i,        \* run(): number of payloads enqueued
    run_s,        \* run(): number of sentinels enqueued
    wait_j,       \* wait(): number of workers joined
    queue,        \* self.queue
    pc,           \* position of each worker in _process_runner
    act_id,       \* each worker's local act_id
    event,        \* each worker's local event
    environ,      \* os.environ['__LITHOPS_ACTIVATION_ID'] of each process
    fn_log,       \* FN_LOG_FILE: the blocks appended so far
    touched,      \* number of times the .done file was touched
    enqueued,     \* history: every item ever put on the queue, in order
    dequeued,     \* history: the items each worker got from the queue
    handled,      \* history: call ids for which function_handler returned
    sys_stdout,   \* sys.stdout (and sys.stderr, set alike) of each process
    old_target,   \* each worker's redirect_stdout: the stream it puts back
    buf           \* each worker's StringIO buf, then its local output

vars == <<job, num_workers, use_threads, raises, sigint, mainpc, workers,
          run_i, run_s, wait_j, queue, pc, act_id, event, environ, fn_log,
          touched, enqueued, dequeued, handled, sys_stdout, old_target, buf>>

streamVars == <<sys_stdout, old_target, buf>>

jobVars == <<job, num_workers, use_threads, raises, sigint>>
mainVars == <<mainpc, workers, run_i, run_s, wait_j, touched>>

\* ------------------------------------------------------------- data model
WorkerIds == 0 .. (MaxWorkers - 1)

\* the main process; worker w is process w + 1 when workers are processes
MainProc == 0
Procs == 0 .. MaxWorkers

NoActId == <<>>
NoEvent == [type |-> "None"]

\* class ShutdownSentinel: every put creates a new instance (k numbers them)
ShutdownSentinel(k) == [type |-> "ShutdownSentinel", instance |-> k]

isinstance_ShutdownSentinel(e) == e.type = "ShutdownSentinel"

IsPayload(e) == e.type = "payload"

\* the decimal digits of n >= 0, most significant first
RECURSIVE Digits(_)
Digits(n) == IF n < 10 THEN <<n>> ELSE Append(Digits(n \div 10), n % 10)

RECURSIVE ZeroPad(_, _)
ZeroPad(s, width) == IF Len(s) >= width THEN s ELSE ZeroPad(<<0>> \o s, width)

\* "{:05d}".format(i): a call id is a string of decimal digits
Format05d(i) == ZeroPad(Digits(i), CallIdWidth)

\* int(call_id)
RECURSIVE ParseInt(_)
ParseInt(s) ==
    IF Len(s) = 0 THEN 0
    ELSE 10 * ParseInt(SubSeq(s, 1, Len(s) - 1)) + s[Len(s)]

\* the job descriptions drawn: data_ranges holds one byte range per call;
\* missing names the fields the job file does not have
JobDescription(n) ==
    [executor_id  |-> "exec",
     job_id       |-> "A000",
     runtime_name |-> "python",
     total_calls  |-> n,
     data_ranges  |-> [k \in 1 .. n |-> <<2 * (k - 1), 2 * (k - 1) + 1>>],
     missing      |-> {}]

\* job files json.load accepts although a field is missing or too short:
\* SimpleNamespace(**dict) checks nothing
MalformedJobs ==
    {[JobDescription(0) EXCEPT !.missing = {"config"}],
     [JobDescription(0) EXCEPT !.missing = {"total_calls"}]}
    \cup {[JobDescription(n) EXCEPT !.missing = {"func_key"}] :
              n \in 0 .. MaxCalls}
    \cup {[JobDescription(n) EXCEPT
              !.data_ranges = SubSeq(@, 1, n - 1)] : n \in 1 .. MaxCalls}

WellFormed(j) ==
    j.missing = {} /\ Len(j.data_ranges) >= j.total_calls

\* _invoke for call index i raises: job.func_key is an AttributeError,
\* job.data_ranges[i] an IndexError
InvokeRaises(j, i) ==
    "func_key" \in j.missing \/ i + 1 > Len(j.data_ranges)

\* _invoke: the payload built for call_id (Python lists index from 0)
Payload(j, call_id) ==
    [type            |-> "payload",
     executor_id     |-> j.executor_id,
     job_id          |-> j.job_id,
     call_id         |-> call_id,
     data_byte_range |-> j.data_ranges[ParseInt(call_id) + 1],
     runtime_name    |-> j.runtime_name]

\* the process whose os.environ and sys.stdout worker w reads and writes
Proc(w) == IF use_threads THEN MainProc ELSE w + 1

\* characters are their codes: newline, space, ']' and the letters from 'a'
NL == 10
SP == 32
RBRACKET == 93
LetterA == 97

\* the streams a sys.stdout can name: the console the command starts with,
\* the stream of LH_LOG_FILE, and the nth StringIO of a worker
Console == [kind |-> "console", worker |-> 0, nth |-> 0]

LogFileStream == [kind |-> "LH_LOG_FILE", worker |-> 0, nth |-> 0]

StringIO(w, n) == [kind |-> "StringIO", worker |-> w, nth |-> n]

\* a StringIO is open from the entry of its with statement to its exit
InScope(w) == pc[w] \in {"get", "invoke"}

IsOpenBuf(stream) ==
    /\ stream.kind = "StringIO"
    /\ InScope(stream.worker)
    /\ act_id[stream.worker] = <<stream.worker, stream.nth>>

\* what function_handler prints for call index i: one line of its own
CallOutput(i) == <<LetterA + i, NL>>

\* sys.stdout.write(text) in worker w's process: the text lands in the
\* StringIO sys.stdout names if that is still open, and in no buf otherwise
Written(w, text) ==
    LET target == sys_stdout[Proc(w)] IN
      IF IsOpenBuf(target)
      THEN [buf EXCEPT ![target.worker] = @ \o text]
      ELSE buf

\* output.count('\n')
RECURSIVE count_nl(_)
count_nl(s) ==
    IF s = <<>> THEN 0
    ELSE (IF Head(s) = NL THEN 1 ELSE 0) + count_nl(Tail(s))

\* output.replace('\n', '\n    ', count): the first count newlines, and
\* every newline when count is negative
RECURSIVE replace_nl(_, _)
replace_nl(s, count) ==
    IF s = <<>> THEN <<>>
    ELSE IF Head(s) = NL /\ count # 0
         THEN <<NL, SP, SP, SP, SP>> \o replace_nl(Tail(s), count - 1)
         ELSE <<Head(s)>> \o replace_nl(Tail(s), count)

\* lines 100 to 105 after the header: '    ' + output + ']\n\n', output
\* with all newlines but the last replaced
BlockText(output) ==
    <<SP, SP, SP, SP>>
        \o replace_nl(output, count_nl(output) - 1)
        \o <<RBRACKET, NL, NL>>

\* str(uuid.uuid4()).replace('-', '')[:12]: a random id, taken to be fresh;
\* the n-th id drawn by worker w is named <<w, n>>
uuid4(w) == <<w, Len(dequeued[w])>>

Terminal == {"shutdown", "interrupted", "died"}

\* a join that returns for any started worker, ended or not
JoinableStarted(w) == pc[w] # "unstarted"

\* Thread.join / Process.join returns once the worker has ended
Joinable(w) == pc[w] \in Terminal

\* queue.Queue / mp.Queue: put appends at the tail, get takes the head
put(q, e) == Append(q, e)

\* a get that takes the newest item (a stack, not a queue)
get_index_lifo(q) == Len(q)

get_index(q) == 1

get_item(q) == q[get_index(q)]

get_rest(q) ==
    SubSeq(q, 1, get_index(q) - 1) \o SubSeq(q, get_index(q) + 1, Len(q))

\* one sentinel too few
SentinelCountShort == Len(workers) - 1

\* run(): "for i in self.workers" puts one sentinel per started worker
SentinelCount == Len(workers)

\* ------------------------------------------------------------------- Init
Init ==
    /\ job \in {JobDescription(n) : n \in 0 .. MaxCalls} \cup MalformedJobs
    /\ num_workers \in 1 .. MaxWorkers
    /\ use_threads \in BOOLEAN
    /\ raises \in SUBSET (0 .. (job.total_calls - 1))
    /\ sigint \in BOOLEAN
    /\ mainpc = "construct"
    /\ workers = <<>>
    /\ run_i = 0
    /\ run_s = 0
    /\ wait_j = 0
    /\ queue = <<>>
    /\ pc = [w \in WorkerIds |-> "unstarted"]
    /\ act_id = [w \in WorkerIds |-> NoActId]
    /\ event = [w \in WorkerIds |-> NoEvent]
    /\ environ = [p \in Procs |-> NoActId]
    /\ fn_log = <<>>
    /\ touched = 0
    /\ enqueued = <<>>
    /\ dequeued = [w \in WorkerIds |-> <<>>]
    /\ handled = {}
    /\ sys_stdout = [p \in Procs |-> Console]
    /\ old_target = [w \in WorkerIds |-> Console]
    /\ buf = [w \in WorkerIds |-> <<>>]

\* ------------------------------------------------- the "run" command (main)
\* LocalhostExecutor.__init__: before the first worker sys.stdout and
\* sys.stderr are set to the stream of LH_LOG_FILE; start the next worker (a
\* process starts with a copy of the main process's streams, a thread shares
\* them) and record it; after the last one __init__ returns and
\* run(job.job_description) begins
StartWorker ==
    /\ mainpc = "construct"
    /\ "config" \notin job.missing
    /\ Len(workers) < num_workers
    /\ LET w == Len(workers) IN
         /\ workers' = Append(workers, w)
         /\ pc' = [pc EXCEPT ![w] = "top"]
    /\ sys_stdout' =
          IF Len(workers) = 0
          THEN [sys_stdout EXCEPT ![MainProc] = LogFileStream,
                                  ![Proc(0)] = LogFileStream]
          ELSE [sys_stdout EXCEPT ![Proc(Len(workers))] = sys_stdout[MainProc]]
    /\ mainpc' = IF Len(workers) + 1 < num_workers THEN "construct" ELSE "run"
    /\ UNCHANGED <<jobVars, run_i, run_s, wait_j, touched, queue, old_target,
                   buf, act_id, event, environ, fn_log, enqueued, dequeued,
                   handled>>

\* LocalhostExecutor(job.config): job.config raises AttributeError, and the
\* command ends before the executor is built
LoadFails ==
    /\ mainpc = "construct"
    /\ "config" \in job.missing
    /\ mainpc' = "failed"
    /\ UNCHANGED <<jobVars, streamVars, workers, run_i, run_s, wait_j, touched, queue, pc,
                   act_id, event, environ, fn_log, enqueued, dequeued, handled>>

\* run(): job.total_calls raises AttributeError at the loop's head, or
\* _invoke raises for the next call; the exception leaves run() and ends
\* the command, the workers stay as they are
RunFails ==
    /\ mainpc = "run"
    /\ \/ "total_calls" \in job.missing
       \/ run_i < job.total_calls /\ InvokeRaises(job, run_i)
    /\ mainpc' = "failed"
    /\ UNCHANGED <<jobVars, streamVars, workers, run_i, run_s, wait_j, touched, queue, pc,
                   act_id, event, environ, fn_log, enqueued, dequeued, handled>>

\* an _invoke turn whose call id is formatted once, outside the loop
InvokeStaleId ==
    /\ mainpc = "run"
    /\ "total_calls" \notin job.missing
    /\ run_i < job.total_calls
    /\ ~InvokeRaises(job, run_i)
    /\ LET payload == Payload(job, Format05d(0)) IN
         /\ queue' = put(queue, payload)
         /\ enqueued' = Append(enqueued, payload)
    /\ run_i' = run_i + 1
    /\ UNCHANGED <<jobVars, streamVars, mainpc, workers, run_s, wait_j, touched, pc,
                   act_id, event, environ, fn_log, dequeued, handled>>

\* run(): one turn of "for i in range(job.total_calls)", with _invoke
Invoke ==
    /\ mainpc = "run"
    /\ "total_calls" \notin job.missing
    /\ run_i < job.total_calls
    /\ ~InvokeRaises(job, run_i)
    /\ LET payload == Payload(job, Format05d(run_i)) IN
         /\ queue' = put(queue, payload)
         /\ enqueued' = Append(enqueued, payload)
    /\ run_i' = run_i + 1
    /\ UNCHANGED <<jobVars, streamVars, mainpc, workers, run_s, wait_j, touched, pc,
                   act_id, event, environ, fn_log, dequeued, handled>>

\* a sentinel turn that puts the sentinel at the head of the queue
PutSentinelFirst ==
    /\ mainpc = "run"
    /\ "total_calls" \notin job.missing
    /\ run_i = job.total_calls
    /\ run_s < SentinelCount
    /\ queue' = <<ShutdownSentinel(run_s)>> \o queue
    /\ enqueued' = Append(enqueued, ShutdownSentinel(run_s))
    /\ run_s' = run_s + 1
    /\ mainpc' = IF run_s + 1 < SentinelCount THEN "run" ELSE "wait"
    /\ UNCHANGED <<jobVars, streamVars, workers, run_i, wait_j, touched, pc,
                   act_id, event, environ, fn_log, dequeued, handled>>

\* run(): one turn of "for i in self.workers", after the calls' loop; after
\* the last turn run() returns and wait() begins
PutSentinel ==
    /\ mainpc = "run"
    /\ "total_calls" \notin job.missing
    /\ run_i = job.total_calls
    /\ run_s < SentinelCount
    /\ queue' = put(queue, ShutdownSentinel(run_s))
    /\ enqueued' = Append(enqueued, ShutdownSentinel(run_s))
    /\ run_s' = run_s + 1
    /\ mainpc' = IF run_s + 1 < SentinelCount THEN "run" ELSE "wait"
    /\ UNCHANGED <<jobVars, streamVars, workers, run_i, wait_j, touched, pc,
                   act_id, event, environ, fn_log, dequeued, handled>>

\* wait(): worker.join() of the next worker returns; after the last worker
\* wait() returns
Join ==
    /\ mainpc = "wait"
    /\ wait_j < Len(workers)
    /\ Joinable(workers[wait_j + 1])
    /\ wait_j' = wait_j + 1
    /\ mainpc' = IF wait_j + 1 < Len(workers) THEN "wait" ELSE "touch"
    /\ UNCHANGED <<jobVars, streamVars, workers, run_i, run_s, touched, queue, pc,
                   act_id, event, environ, fn_log, enqueued, dequeued, handled>>

\* a touch that does not wait for wait() to return
TouchEarly ==
    /\ mainpc \in {"wait", "touch"}
    /\ touched' = touched + 1
    /\ mainpc' = "finished"
    /\ UNCHANGED <<jobVars, streamVars, workers, run_i, run_s, wait_j, queue, pc,
                   act_id, event, environ, fn_log, enqueued, dequeued, handled>>

\* Path(sentinel).touch(), the last statement of the command
Touch ==
    /\ mainpc = "touch"
    /\ touched' = touched + 1
    /\ mainpc' = "finished"
    /\ UNCHANGED <<jobVars, streamVars, workers, run_i, run_s, wait_j, queue, pc,
                   act_id, event, environ, fn_log, enqueued, dequeued, handled>>

\* ------------------------------------------------ _process_runner (worker)
\* redirect_stdout / redirect_stderr __exit__: sys.stdout is set back to the
\* stream found at __enter__
Restored(w) == [sys_stdout EXCEPT ![Proc(w)] = old_target[w]]

\* top of the loop: a new StringIO, redirect_stdout and redirect_stderr are
\* entered (sys.stdout is remembered and then names the StringIO), act_id
\* is drawn and published
BeginIteration(w) ==
    /\ pc[w] = "top"
    /\ buf' = [buf EXCEPT ![w] = <<>>]
    /\ old_target' = [old_target EXCEPT ![w] = sys_stdout[Proc(w)]]
    /\ sys_stdout' = [sys_stdout EXCEPT ![Proc(w)] = StringIO(w, uuid4(w)[2])]
    /\ act_id' = [act_id EXCEPT ![w] = uuid4(w)]
    /\ environ' = [environ EXCEPT ![Proc(w)] = uuid4(w)]
    /\ pc' = [pc EXCEPT ![w] = "get"]
    /\ UNCHANGED <<jobVars, mainVars, queue, event, fn_log, enqueued,
                   dequeued, handled>>

\* a loop that goes on after a ShutdownSentinel instead of breaking
DequeueNoBreak(w) ==
    /\ pc[w] = "get"
    /\ queue # <<>>
    /\ event' = [event EXCEPT ![w] = get_item(queue)]
    /\ queue' = get_rest(queue)
    /\ dequeued' = [dequeued EXCEPT ![w] = Append(@, get_item(queue))]
    /\ pc' = [pc EXCEPT ![w] =
                IF isinstance_ShutdownSentinel(get_item(queue))
                THEN "top" ELSE "invoke"]
    /\ sys_stdout' = IF isinstance_ShutdownSentinel(get_item(queue))
                     THEN Restored(w) ELSE sys_stdout
    /\ UNCHANGED <<jobVars, mainVars, act_id, environ, fn_log, enqueued,
                   handled, old_target, buf>>

\* event = self.queue.get(block=True); a ShutdownSentinel breaks the loop,
\* which leaves the with statement
Dequeue(w) ==
    /\ pc[w] = "get"
    /\ queue # <<>>
    /\ event' = [event EXCEPT ![w] = get_item(queue)]
    /\ queue' = get_rest(queue)
    /\ dequeued' = [dequeued EXCEPT ![w] = Append(@, get_item(queue))]
    /\ pc' = [pc EXCEPT ![w] =
                IF isinstance_ShutdownSentinel(get_item(queue))
                THEN "shutdown" ELSE "invoke"]
    /\ sys_stdout' = IF isinstance_ShutdownSentinel(get_item(queue))
                     THEN Restored(w) ELSE sys_stdout
    /\ UNCHANGED <<jobVars, mainVars, act_id, environ, fn_log, enqueued,
                   handled, old_target, buf>>

\* function_handler(event) prints its output and returns; output is
\* buf.getvalue(), and the with statement is left
Return(w) ==
    /\ pc[w] = "invoke"
    /\ ParseInt(event[w].call_id) \notin raises
    /\ buf' = Written(w, CallOutput(ParseInt(event[w].call_id)))
    /\ sys_stdout' = Restored(w)
    /\ handled' = handled \cup {event[w].call_id}
    /\ pc' = [pc EXCEPT ![w] = "log"]
    /\ UNCHANGED <<jobVars, mainVars, queue, act_id, event, environ, fn_log,
                   enqueued, dequeued, old_target>>

\* a failure that also empties the queue the other workers read
RaiseAndClear(w) ==
    /\ pc[w] = "invoke"
    /\ ParseInt(event[w].call_id) \in raises
    /\ pc' = [pc EXCEPT ![w] = "died"]
    /\ sys_stdout' = Restored(w)
    /\ queue' = <<>>
    /\ UNCHANGED <<jobVars, mainVars, act_id, event, environ, fn_log,
                   enqueued, dequeued, handled, old_target, buf>>

\* function_handler(event) raises (what it printed before is not followed):
\* only KeyboardInterrupt is caught, so the exception leaves the with
\* statement and _process_runner, and the worker ends
Raise(w) ==
    /\ pc[w] = "invoke"
    /\ ParseInt(event[w].call_id) \in raises
    /\ pc' = [pc EXCEPT ![w] = "died"]
    /\ sys_stdout' = Restored(w)
    /\ UNCHANGED <<jobVars, mainVars, queue, act_id, event, environ, fn_log,
                   enqueued, dequeued, handled, old_target, buf>>

\* the block appended to FN_LOG_FILE: the header's runtime name and act_id,
\* and the text after the header (call_id is not printed: it records which
\* call the block was written for)
Block(w) ==
    [runtime_name |-> event[w].runtime_name,
     act_id       |-> act_id[w],
     text         |-> BlockText(buf[w]),
     call_id      |-> event[w].call_id]

\* a write that appends the block twice
WriteLogTwice(w) ==
    /\ pc[w] = "log"
    /\ fn_log' = Append(Append(fn_log, Block(w)), Block(w))
    /\ pc' = [pc EXCEPT ![w] = "top"]
    /\ UNCHANGED <<jobVars, streamVars, mainVars, queue, act_id, event,
                   environ, enqueued, dequeued, handled>>

\* with open(FN_LOG_FILE, 'a') as lf: lf.write(...); back to the loop's top
WriteLog(w) ==
    /\ pc[w] = "log"
    /\ fn_log' = Append(fn_log, Block(w))
    /\ pc' = [pc EXCEPT ![w] = "top"]
    /\ UNCHANGED <<jobVars, streamVars, mainVars, queue, act_id, event,
                   environ, enqueued, dequeued, handled>>

\* an interrupt handler that puts the payload in hand back on the queue
InterruptRequeue(w) ==
    /\ sigint
    /\ pc[w] \in {"get", "invoke", "log"}
    /\ pc[w] = "invoke" \/ ~use_threads
    /\ pc' = [pc EXCEPT ![w] = "interrupted"]
    /\ sys_stdout' = IF InScope(w) THEN Restored(w) ELSE sys_stdout
    /\ queue' = IF pc[w] = "invoke" THEN put(queue, event[w]) ELSE queue
    /\ UNCHANGED <<jobVars, mainVars, act_id, event, environ, fn_log,
                   enqueued, dequeued, handled, old_target, buf>>

\* KeyboardInterrupt in a worker.  Inside the try (blocked in get, inside
\* function_handler) it is caught and breaks the loop, which leaves the with
\* statement; while the block is written it is uncaught and ends the worker
\* as well.  Signals reach only the main thread of a process, so a worker
\* thread sees one only from inside function_handler.
Interrupt(w) ==
    /\ sigint
    /\ pc[w] \in {"get", "invoke", "log"}
    /\ pc[w] = "invoke" \/ ~use_threads
    /\ pc' = [pc EXCEPT ![w] = "interrupted"]
    /\ sys_stdout' = IF InScope(w) THEN Restored(w) ELSE sys_stdout
    /\ UNCHANGED <<jobVars, mainVars, queue, act_id, event, environ, fn_log,
                   enqueued, dequeued, handled, old_target, buf>>

\* ------------------------------------------------------------------- Next
MainStep ==
    \/ LoadFails
    \/ StartWorker
    \/ RunFails
    \/ Invoke
    \/ PutSentinel
    \/ Join
    \/ Touch

WorkerStep(w) ==
    \/ BeginIteration(w)
    \/ Dequeue(w)
    \/ Return(w)
    \/ Raise(w)
    \/ WriteLog(w)

Next ==
    \/ MainStep
    \/ \E w \in WorkerIds : WorkerStep(w)
    \/ \E w \in WorkerIds : Interrupt(w)

Spec == Init /\ [][Next]_vars

\* the scheduler runs the main flow and every live worker; function_handler
\* is taken to end (return or raise) whenever it is called
FairSpec ==
    /\ Spec
    /\ WF_vars(MainStep)
    /\ \A w \in WorkerIds : WF_vars(WorkerStep(w))

\* ------------------------------------------- the log block of any output
\* the texts a call may have printed: up to MaxOutputLen characters, each a
\* letter or a newline
OutputChars == {LetterA, LetterA + 1, NL}

Outputs == UNION {[1 .. n -> OutputChars] : n \in 0 .. MaxOutputLen}

\* one worker whose function_handler has just returned for call 00000 with
\* any captured output, about to write the block
FormatInit ==
    /\ job = JobDescription(1)
    /\ num_workers = 1
    /\ use_threads = FALSE
    /\ raises = {}
    /\ sigint = FALSE
    /\ mainpc = "wait"
    /\ workers = <<0>>
    /\ run_i = 1
    /\ run_s = 1
    /\ wait_j = 0
    /\ queue = <<ShutdownSentinel(0)>>
    /\ pc = [w \in WorkerIds |-> IF w = 0 THEN "log" ELSE "unstarted"]
    /\ act_id = [w \in WorkerIds |-> IF w = 0 THEN <<0, 0>> ELSE NoActId]
    /\ event = [w \in WorkerIds |->
                  IF w = 0 THEN Payload(job, Format05d(0)) ELSE NoEvent]
    /\ environ = [p \in Procs |-> IF p = 1 THEN <<0, 0>> ELSE NoActId]
    /\ fn_log = <<>>
    /\ touched = 0
    /\ enqueued = <<Payload(job, Format05d(0)), ShutdownSentinel(0)>>
    /\ dequeued = [w \in WorkerIds |->
                     IF w = 0 THEN <<Payload(job, Format05d(0))>> ELSE <<>>]
    /\ handled = {Format05d(0)}
    /\ sys_stdout = [p \in Procs |-> IF p \in {0, 1} THEN LogFileStream ELSE Console]
    /\ old_target = [w \in WorkerIds |-> IF w = 0 THEN LogFileStream ELSE Console]
    /\ \E text \in Outputs : buf = [w \in WorkerIds |-> IF w = 0 THEN text ELSE <<>>]

FormatNext == \E w \in WorkerIds : WriteLog(w)

FormatSpec == FormatInit /\ [][FormatNext]_vars

\* ----------------------------------------------------- derived quantities
Started == 0 .. (num_workers - 1)

AllWorkersTerminated == \A w \in Started : pc[w] \in Terminal

WaitReturned == mainpc \in {"touch", "finished"}

RunReturned == mainpc \in {"wait", "touch", "finished"}

CallIds == {Format05d(i) : i \in 0 .. (job.total_calls - 1)}

\* positions of the payloads in a sequence of queue items
PayloadsAt(items) == {k \in 1 .. Len(items) : IsPayload(items[k])}

SentinelsAt(items) ==
    {k \in 1 .. Len(items) : isinstance_ShutdownSentinel(items[k])}

DequeuedCallIds ==
    {dequeued[w][k].call_id : <<w, k>> \in
        {x \in WorkerIds \X (1 .. (MaxCalls + MaxWorkers)) :
            x[2] \in PayloadsAt(dequeued[x[1]])}}

\* how many times an item was taken from the queue, over all workers
TimesDequeued(e) ==
    Cardinality({x \in WorkerIds \X (1 .. (MaxCalls + MaxWorkers)) :
        /\ x[2] <= Len(dequeued[x[1]])
        /\ dequeued[x[1]][x[2]] = e})

LoggedCallIds == {fn_log[k].call_id : k \in 1 .. Len(fn_log)}

NoFault == \A w \in Started : pc[w] \notin {"died", "interrupted"}

\* ----------------------------------------------------------------- claims
\* C1: the completion marker is created at most once, and whenever it
\* exists every one of the num_workers workers has terminated (a terminated
\* worker stays terminated, so this is the case in the creating state too).
C1_MarkerOnceAfterWorkers ==
    /\ touched <= 1
    /\ touched >= 1 => (Len(workers) = num_workers /\ AllWorkersTerminated)

C1_Witness ==
    /\ touched = 1
    /\ num_workers = 2
    /\ job.total_calls = 2
    /\ AllWorkersTerminated

\* C2: whenever the completion marker exists, every call id 0..N-1 was
\* dequeued by a worker and function_handler returned for it, and no
\* payload is left on the queue.  Stated for the runs in which no
\* KeyboardInterrupt is delivered.
C2_MarkerImpliesAllProcessed ==
    (~sigint /\ touched >= 1) =>
        /\ DequeuedCallIds = CallIds
        /\ handled = CallIds
        /\ PayloadsAt(queue) = {}

\* C3: no worker dequeues a ShutdownSentinel while a payload is still to be
\* enqueued or still on the queue: once any worker holds a sentinel, all N
\* payloads have been dequeued.
C3_NoSentinelBeforePayloads ==
    (\E w \in WorkerIds : SentinelsAt(dequeued[w]) # {}) =>
        /\ run_i = job.total_calls
        /\ PayloadsAt(queue) = {}
        /\ DequeuedCallIds = CallIds

C3_Witness ==
    /\ job.total_calls = 2
    /\ num_workers = 2
    /\ \A w \in Started : PayloadsAt(dequeued[w]) # {}
    /\ \E w \in Started : SentinelsAt(dequeued[w]) # {}
    /\ \E w \in Started : pc[w] = "invoke"

\* C4: the items ever enqueued are payloads and then sentinels, never a
\* sentinel before the last payload, and when run() has returned they are
\* exactly total_calls payloads followed by exactly num_workers sentinels,
\* whatever the workers have dequeued meanwhile.
C4_RunEnqueuesPayloadsThenSentinels ==
    /\ \A k \in 1 .. Len(enqueued) :
          /\ k <= job.total_calls => IsPayload(enqueued[k])
          /\ k > job.total_calls => isinstance_ShutdownSentinel(enqueued[k])
    /\ RunReturned =>
          /\ Len(enqueued) = job.total_calls + num_workers
          /\ Cardinality(PayloadsAt(enqueued)) = job.total_calls
          /\ Cardinality(SentinelsAt(enqueued)) = num_workers

C4_Witness ==
    /\ mainpc = "wait"
    /\ job.total_calls = 2
    /\ num_workers = 2
    /\ Len(enqueued) = 4
    /\ Len(queue) = 2

\* C5: wait() has returned only if every one of the num_workers workers is
\* in a terminal state (took a sentinel, was interrupted, or died).
C5_WaitReturnsAfterAllTerminated ==
    WaitReturned => (Len(workers) = num_workers /\ AllWorkersTerminated)

C5_Witness ==
    /\ mainpc = "touch"
    /\ num_workers = 2
    /\ pc[0] = "died"
    /\ pc[1] = "shutdown"

\* C6: when run() has returned, the call ids of the payloads it enqueued
\* are exactly 0..N-1, each in exactly one payload, and the payload with
\* call id i carries data_ranges[i].
C6_CallIdsCoverRangeOnce ==
    RunReturned =>
        /\ \A i \in 0 .. (job.total_calls - 1) :
              Cardinality({k \in PayloadsAt(enqueued) :
                  ParseInt(enqueued[k].call_id) = i}) = 1
        /\ \A k \in PayloadsAt(enqueued) :
              LET i == ParseInt(enqueued[k].call_id) IN
                /\ i \in 0 .. (job.total_calls - 1)
                /\ enqueued[k].call_id = Format05d(i)
                /\ enqueued[k].data_byte_range = job.data_ranges[i + 1]

C6_Witness ==
    /\ RunReturned
    /\ job.total_calls = 2
    /\ Cardinality(PayloadsAt(enqueued)) = 2

\* C7: when wait() has returned in a run in which no worker died from an
\* exception or was interrupted, the log holds exactly N blocks, one for
\* each call id, with pairwise distinct activation ids.
C7_LogHasOneBlockPerCall ==
    (WaitReturned /\ NoFault) =>
        /\ Len(fn_log) = job.total_calls
        /\ LoggedCallIds = CallIds
        /\ Cardinality({fn_log[k].act_id : k \in 1 .. Len(fn_log)})
              = job.total_calls

C7_Witness ==
    /\ touched = 1
    /\ NoFault
    /\ job.total_calls = 2
    /\ num_workers = 2
    /\ Len(fn_log) = 2
    /\ \A w \in Started : \E k \in 1 .. Len(fn_log) : fn_log[k].act_id[1] = w

\* C8: no payload is dequeued twice (by two workers or by one), and once
\* all workers have terminated (wait() has returned) every enqueued payload
\* has been dequeued by some worker.  Stated for the runs in which no KeyboardInterrupt is
\* delivered.
C8_PayloadConsumedExactlyOnce ==
    ~sigint =>
        /\ \A k \in PayloadsAt(enqueued) : TimesDequeued(enqueued[k]) <= 1
        /\ WaitReturned =>
              \A k \in PayloadsAt(enqueued) : TimesDequeued(enqueued[k]) = 1

\* C9: every sentinel is dequeued by at most one worker, a worker dequeues
\* at most one sentinel and nothing after it, and once wait() has returned
\* all num_workers sentinels have been dequeued, one per worker.  Stated
\* for the runs in which no KeyboardInterrupt is delivered.
C9_SentinelPerWorkerTerminal ==
    ~sigint =>
        /\ \A k \in SentinelsAt(enqueued) : TimesDequeued(enqueued[k]) <= 1
        /\ \A w \in WorkerIds :
              SentinelsAt(dequeued[w]) \subseteq {Len(dequeued[w])}
        /\ WaitReturned =>
              \A w \in Started : SentinelsAt(dequeued[w]) # {}

\* C10: for a well-formed job, with at least two workers, function_handler
\* raising on exactly one call id and no KeyboardInterrupt, at most one worker dies, and every
\* other call is eventually handled to completion and gets its log block.
C10_Scenario ==
    /\ WellFormed(job)
    /\ num_workers >= 2
    /\ Cardinality(raises) = 1
    /\ ~sigint

C10_OthersLogged ==
    \A i \in (0 .. (job.total_calls - 1)) \ raises :
        /\ Format05d(i) \in handled
        /\ Format05d(i) \in LoggedCallIds

C11_MalformedFailsBeforeWorkers ==
    mainpc = "failed" => \A w \in WorkerIds : pc[w] = "unstarted"

\* C12: in thread mode as in process mode, the block written for a call
\* holds exactly what function_handler printed for that call, and nothing
\* printed for another call.
C12_BlockHoldsOwnOutput ==
    \A k \in 1 .. Len(fn_log) :
        fn_log[k].text = BlockText(CallOutput(ParseInt(fn_log[k].call_id)))

\* C13: once the invocation of a dequeued payload has ended, normally or
\* with an exception other than KeyboardInterrupt, the worker writes that
\* call's block and stays alive: no worker dies, and a payload whose
\* invocation is over is logged or about to be.  Stated for the runs in
\* which no KeyboardInterrupt is delivered.
C13_BlockAfterEveryInvocation ==
    ~sigint =>
        \A w \in WorkerIds :
            /\ pc[w] # "died"
            /\ \A k \in PayloadsAt(dequeued[w]) :
                  (k < Len(dequeued[w]) \/ pc[w] # "invoke") =>
                      \/ dequeued[w][k].call_id \in LoggedCallIds
                      \/ pc[w] = "log" /\ event[w] = dequeued[w][k]

\* C14: a worker that a KeyboardInterrupt reached stays terminated, takes
\* nothing more from the queue and writes no further block; the payload it
\* was executing has no block, is not back on the queue and was dequeued by
\* no other worker.
InterruptedCall(w) ==
    /\ pc[w] = "interrupted"
    /\ dequeued[w] # <<>>
    /\ IsPayload(dequeued[w][Len(dequeued[w])])
    /\ dequeued[w][Len(dequeued[w])].call_id \notin handled

C14_InterruptIsFinal ==
    /\ [](\A w \in WorkerIds :
            InterruptedCall(w) =>
                LET e == dequeued[w][Len(dequeued[w])] IN
                  /\ e.call_id \notin LoggedCallIds
                  /\ \A k \in 1 .. Len(queue) : queue[k] # e
                  /\ TimesDequeued(e) = 1)
    /\ [][\A w \in WorkerIds :
            pc[w] = "interrupted" =>
                /\ pc'[w] = "interrupted"
                /\ dequeued'[w] = dequeued[w]
                /\ \A k \in 1 .. Len(fn_log') :
                      fn_log'[k].act_id[1] = w => k <= Len(fn_log)]_vars

C14_Witness ==
    /\ num_workers = 2
    /\ job.total_calls = 2
    /\ InterruptedCall(0)
    /\ Len(dequeued[0]) = 1
    /\ pc[1] = "shutdown"
    /\ Len(dequeued[1]) = 2

\* C15: once all workers have terminated, no process's sys.stdout names a
\* StringIO of a call: every exit of the capture scope put back the stream
\* that was in effect before it, in thread mode as in process mode.
C15_StreamsRestored ==
    (Len(workers) = num_workers /\ AllWorkersTerminated) =>
        \A p \in Procs : sys_stdout[p].kind # "StringIO"

\* C16: in every block, every line before the closing ']' starts with
\* exactly four spaces, and the closing ']' is the first character of its
\* line, whatever the captured output was.
WellIndented(t) ==
    LET close == Len(t) - 2 IN
      /\ close = 1 \/ t[close - 1] = NL
      /\ \A p \in 1 .. (close - 1) :
            (p = 1 \/ t[p - 1] = NL) =>
                /\ p + 4 < close
                /\ \A d \in 0 .. 3 : t[p + d] = SP
                /\ t[p + 4] # SP

C16_EveryLineIndented ==
    \A k \in 1 .. Len(fn_log) : WellIndented(fn_log[k].text)

\* C17: while function_handler runs for a call, the activation id it reads
\* from os.environ is the act_id its worker will print in the block.
C17_EnvironMatchesActId ==
    \A w \in WorkerIds : pc[w] = "invoke" => environ[Proc(w)] = act_id[w]

\* C18: for a well-formed job, under fair scheduling and with every
\* function_handler call ending, the completion marker is eventually
\* written, also when workers die or are interrupted.
C18_MarkerEventuallyWritten ==
    WellFormed(job) ~> (touched = 1)

C18_Witness ==
    /\ touched = 1
    /\ num_workers = 2
    /\ job.total_calls = 2
    /\ pc[0] = "died"
    /\ pc[1] = "interrupted"

\* C19: once run() has returned, the sentinels on the queue are as many as
\* the workers still alive plus those that died or were interrupted; a
\* payload is left on the queue after all workers ended only if no worker
\* took a sentinel; and without failure or interrupt the queue is empty
\* when wait() has returned.
C19_SentinelAccounting ==
    /\ RunReturned =>
          Cardinality(SentinelsAt(queue)) =
              Cardinality({w \in Started : pc[w] \notin Terminal})
              + Cardinality({w \in Started :
                                pc[w] \in {"died", "interrupted"}})
    /\ (RunReturned /\ AllWorkersTerminated /\ PayloadsAt(queue) # {}) =>
          \A w \in WorkerIds : SentinelsAt(dequeued[w]) = {}
    /\ (WaitReturned /\ NoFault) => queue = <<>>

C19_Witness ==
    /\ RunReturned
    /\ num_workers = 2
    /\ pc[0] = "died"
    /\ pc[1] = "invoke"
    /\ Cardinality(SentinelsAt(queue)) = 2

====
